---- MODULE Spec2Model ----
(***************************************************************************)
(* A model of maya-capture: capture() and snap() of capture/core.py and    *)
(* the option sets of capture/options.py.                                  *)
(*                                                                         *)
(* One behaviour is one call of capture() or snap().  The host (Maya's     *)
(* cmds) is outside the repository: every host command either returns or   *)
(* raises RuntimeError, chosen nondeterministically at the step that       *)
(* issues it.  Python's own semantics are modelled as they are: an         *)
(* exception unwinds through the enclosing finally blocks, dir() lists     *)
(* methods as well as data attributes, a function without a return         *)
(* statement returns None.                                                 *)
(*                                                                         *)
(* The interpreter's inspect module is outside the repository too:         *)
(* _inject reads the attribute kwargs of the ArgSpec that getargspec        *)
(* returns, which CPython's ArgSpec (args, varargs, keywords, defaults)     *)
(* does not have.  argspecKwargs says whether the read succeeds; it is      *)
(* FALSE on CPython, where _inject raises before it calls anything, and     *)
(* TRUE stands for an interpreter on which the rest of _options runs.       *)
(*                                                                         *)
(* Left out: width, height, the aspect ratio, filename, format,            *)
(* compression, overwrite and off_screen, which capture hands to the host  *)
(* and never reads again.  cmds.deleteUI is taken to succeed.              *)
(*                                                                         *)
(* Optional values are sequences: <<>> is Python's None, <<v>> is v.       *)
(* Frames are counted in half frames (a frame argument may be a float):    *)
(* the integer f stands for the frame number f/2.                          *)
(***************************************************************************)
EXTENDS Integers, Sequences, FiniteSets, TLC

None == <<>>
Some(v) == <<v>>

Range(s) == {s[i] : i \in DOMAIN s}

(* ------------------------------ bounds -------------------------------- *)

MaxPathLen == 3      \* length of the path the host's playblast returns
MaxNodes == 2        \* length of the isolate list
MaxOptions == 1      \* length of the caller's options list

(* --------------------------- the host scene --------------------------- *)

SceneCameras == {"persp", "cam1"}
SceneNodes == <<"n1", "n2", "n3">>
Frames == {-14, -3, 0, 1, 24}
PlaybackRanges == {[min |-> 2, max |-> 6]}
Colors == {"grey", "blue", "black", "white"}

\* a capture that does not look whether the camera exists
objExists_unchecked(camera) == TRUE

\* cmds.objExists(camera)
objExists(camera) == camera \in SceneCameras

(* ---------------------------- option sets ----------------------------- *)

\* The data attributes of the three option classes.  ViewportOptions has 29
\* of them; polymeshes stands for the object-type flags that the reset
\* (allObjects=False) clears, wireframeOnShaded for those it leaves alone.
VpFields == {"polymeshes", "grid", "wireframeOnShaded"}
CamFields == {"displayGateMask", "displayResolution", "displayFilmGate"}
_colors == <<"background", "backgroundTop", "backgroundBottom">>
_prefs == <<"displayGradient">>
Methods == {"set", "current"}

ViewportDefaults ==
    [polymeshes |-> TRUE, grid |-> FALSE, wireframeOnShaded |-> FALSE]
CameraDefaults ==
    [displayGateMask |-> FALSE, displayResolution |-> FALSE,
     displayFilmGate |-> FALSE]
DisplayDefaults ==
    [displayGradient |-> TRUE, background |-> "grey",
     backgroundTop |-> "blue", backgroundBottom |-> "black"]

ClassDefaults(type) ==
    CASE type = "ViewportOptions" -> ViewportDefaults
      [] type = "CameraOptions" -> CameraDefaults
      [] type = "DisplayOptions" -> DisplayDefaults

DataFields(type) ==
    CASE type = "ViewportOptions" -> VpFields
      [] type = "CameraOptions" -> CamFields
      [] type = "DisplayOptions" -> Range(_colors) \cup Range(_prefs)

\* A Python object that can stand in an options list: an instance of an
\* option class, the class object itself, or None.  callable says whether
\* obj.set is still the method (an instance attribute named set shadows it).
Instance(type, vals) ==
    [kind |-> "instance", type |-> type, vals |-> vals, callable |-> TRUE]
ClassObject(type) ==
    [kind |-> "class", type |-> type, vals |-> ClassDefaults(type),
     callable |-> TRUE]
NoneObject ==
    [kind |-> "None", type |-> "NoneType", vals |-> <<>>, callable |-> FALSE]

\* _parse_options: every name of dir(options) that does not start with "__".
\* dir() of an instance lists the attributes of its class too, so the two
\* methods are among the keys.
_parse_options(options) == DataFields(options.type) \cup Methods

(* --------------------------- frame values ----------------------------- *)

\* A frame argument: a number (int or float, in half frames) or a sequence
\* of frames.
Scalar(f) == [scalar |-> TRUE, fs |-> <<f>>]
FrameList(fs) == [scalar |-> FALSE, fs |-> fs]

\* Python truthiness of a frame value: 0 and 0.0 are false, so is ().
Truthy(v) == IF v.scalar THEN v.fs[1] # 0 ELSE Len(v.fs) > 0

\* `x or y` for an optional frame value x
OrElse(x, y) == IF x # None /\ Truthy(x[1]) THEN x[1] ELSE y

\* isinstance(frame, (int, float))
IsNumber(v) == v.scalar

(* ------------------------------ the calls ----------------------------- *)

BoundedSeq(S, n) == UNION {[1..k -> S] : k \in 0..n}
Optional(S) == {None} \cup {Some(v) : v \in S}

CustomViewport ==
    Instance("ViewportOptions", [ViewportDefaults EXCEPT !.grid = TRUE])
CustomCamera ==
    Instance("CameraOptions", [CameraDefaults EXCEPT !.displayResolution = TRUE])
CustomDisplay ==
    Instance("DisplayOptions",
             [DisplayDefaults EXCEPT !.background = "white",
                                     !.displayGradient = FALSE])

\* what a caller may put in `options`: option instances, or (by mistake)
\* an option class
OptionElems ==
    {CustomViewport, CustomCamera, CustomDisplay, ClassObject("DisplayOptions")}

\* default_options as declared (core.py:24-26), or emptied by the caller
DeclaredDefaults ==
    <<Instance("ViewportOptions", ViewportDefaults),
      Instance("DisplayOptions", DisplayDefaults),
      Instance("CameraOptions", CameraDefaults)>>

IsolateLists == {SubSeq(SceneNodes, 1, k) : k \in 0..MaxNodes}

\* calls that vary the camera, the option sets and the isolate list
OptionCalls ==
    [entry : {"capture"},
     camera : {None, Some("cam1"), Some("ghost")},
     start_frame : {None}, end_frame : {None}, frame : {None},
     viewer : {None}, raw_frame_numbers : {None},
     isolate : Optional(IsolateLists),
     default_options : {DeclaredDefaults, <<>>},
     options : Optional(BoundedSeq(OptionElems, MaxOptions)),
     clipboard : {FALSE}]

\* snap calls that vary the frame, the viewer and raw_frame_numbers
SnapCalls ==
    [entry : {"snap"},
     camera : {None, Some("ghost")},
     start_frame : {None}, end_frame : {None},
     frame : Optional({Scalar(f) : f \in Frames} \cup {FrameList(<<2, 4>>)}),
     viewer : Optional(BOOLEAN), raw_frame_numbers : Optional(BOOLEAN),
     isolate : {None},
     default_options : {DeclaredDefaults, <<>>},
     options : {None},
     clipboard : BOOLEAN]

\* capture calls that vary the frame range, the viewer and raw_frame_numbers
RangeCalls ==
    [entry : {"capture"},
     camera : {None},
     start_frame : Optional({Scalar(0), Scalar(4)}),
     end_frame : Optional({Scalar(0), Scalar(8)}),
     frame : {None, Some(FrameList(<<2, 4>>))},
     viewer : Optional(BOOLEAN), raw_frame_numbers : {None, Some(TRUE)},
     isolate : {None},
     default_options : {<<>>},
     options : {None},
     clipboard : {FALSE}]

Calls == OptionCalls \cup SnapCalls \cup RangeCalls

\* the paths the host's playblast may return: names with frame padding
Paths == BoundedSeq({"a", "#"}, MaxPathLen)

(* ------------------------------- state -------------------------------- *)

VARIABLES
    args,            \* the arguments of the call
    argspecKwargs,   \* the interpreter: does inspect's ArgSpec have .kwargs
    camAttr,         \* host: the gate attributes of each camera
    display,         \* host: background colours and the gradient preference
    playback,        \* host: playbackOptions minTime / maxTime
    currentTime,     \* host: cmds.currentTime
    window,          \* host: does the capture window exist
    panel,           \* host: does the CapturePanel model panel exist
    editor,          \* host: the modelEditor flags of the panel
    lookThru,        \* host: the camera the panel looks through
    isolateSelect,   \* host: isolateSelect of the panel
    playblast,       \* host: the arguments of the playblast invocation
    stderr,          \* the warnings written to sys.stderr
    clipboardImage,  \* the image on the system clipboard
    pc,              \* where the call is
    kwargs,          \* the keyword arguments capture() is called with
    camera,          \* capture: camera
    start_frame,     \* capture: start_frame
    end_frame,       \* capture: end_frame
    playblast_kwargs,\* capture: playblast_kwargs['frame']
    context_options, \* capture: context_options
    originals,       \* _options: originals
    idx,             \* _options: position of the loop over options / originals
    exc,             \* the exception being propagated ("None": none)
    output,          \* capture: output, the path playblast returned
    result,          \* what the call returned or raised
    pre,             \* history: the host state when the call was made
    log              \* history: the steps of the call, in order

hostVars == <<camAttr, display, playback, currentTime, window, panel, editor,
              lookThru, isolateSelect, playblast, clipboardImage>>
callVars == <<args, argspecKwargs, pre>>
captureVars == <<kwargs, camera, start_frame, end_frame, playblast_kwargs,
                 context_options>>
vars == <<args, argspecKwargs, camAttr, display, playback, currentTime, window,
          panel, editor, lookThru, isolateSelect, playblast, stderr,
          clipboardImage, pc, kwargs, camera, start_frame, end_frame,
          playblast_kwargs, context_options, originals, idx, exc, output,
          result, pre, log>>

\* the host state a call may find: the user's camera gates, display
\* preferences and current frame
HostStates ==
    {[cam |-> CameraDefaults, display |-> DisplayDefaults, currentTime |-> 0],
     [cam |-> [CameraDefaults EXCEPT !.displayGateMask = TRUE,
                                     !.displayFilmGate = TRUE],
      display |-> [DisplayDefaults EXCEPT !.backgroundTop = "white"],
      currentTime |-> 2]}

\* a new model panel shows everything
NewEditor == [polymeshes |-> TRUE, grid |-> TRUE, wireframeOnShaded |-> FALSE]
NoIsolate == [state |-> FALSE, objects |-> {}, calls |-> 0]

NoResult == [kind |-> "running", exception |-> "None", value |-> <<>>]
Returned(v) == [kind |-> "return", exception |-> "None", value |-> v]
Raised(e) == [kind |-> "raise", exception |-> e, value |-> <<>>]

Init ==
    /\ args \in Calls
    /\ argspecKwargs \in BOOLEAN
    /\ \E h \in HostStates :
          /\ camAttr = [cam \in SceneCameras |-> h.cam]
          /\ display = h.display
          /\ currentTime = h.currentTime
    /\ playback \in PlaybackRanges
    /\ window = FALSE
    /\ panel = FALSE
    /\ editor = NewEditor
    /\ lookThru = ""
    /\ isolateSelect = NoIsolate
    /\ playblast = None
    /\ stderr = <<>>
    /\ clipboardImage = None
    /\ pc = args.entry
    /\ kwargs = args
    /\ camera = ""
    /\ start_frame = Scalar(0)
    /\ end_frame = Scalar(0)
    /\ playblast_kwargs = None
    /\ context_options = <<>>
    /\ originals = <<>>
    /\ idx = 1
    /\ exc = "None"
    /\ output = None
    /\ result = NoResult
    /\ pre = [camAttr |-> camAttr, display |-> display]
    /\ log = <<>>

(* ------------------------------- snap --------------------------------- *)

\* core.py:170-188: the frame, forced onto start_frame, end_frame and frame;
\* snap's own defaults for viewer and raw_frame_numbers; the type check.
snap ==
    /\ pc = "snap"
    /\ LET frame == IF args.frame = None THEN Scalar(currentTime)
                                         ELSE args.frame[1]
       IN /\ kwargs' = [args EXCEPT
                 !.start_frame = Some(frame),
                 !.end_frame = Some(frame),
                 !.frame = Some(frame),
                 !.viewer = IF args.viewer = None THEN Some(FALSE)
                                                  ELSE args.viewer,
                 !.raw_frame_numbers =
                     IF args.raw_frame_numbers = None THEN Some(TRUE)
                                                      ELSE args.raw_frame_numbers]
          /\ IF IsNumber(frame)
               THEN pc' = "capture" /\ result' = result
               ELSE pc' = "done" /\ result' = Raised("TypeError")
    /\ UNCHANGED <<hostVars, callVars, stderr, camera, start_frame, end_frame,
                   playblast_kwargs, context_options, originals, idx, exc,
                   output, log>>

(* ------------------------------ capture ------------------------------- *)

\* `type(opt) in options`: the list holds an element equal to the class of
\* opt.  An instance is not equal to its class; only the class object is.
TypeInOptions(opt, options) ==
    \E k \in DOMAIN options :
        options[k].kind = "class" /\ options[k].type = opt.type

\* core.py:98-110: the defaults whose type is not in `options`, then the
\* caller's options.
MergeOptions(default_options, options) ==
    LET given == IF options = None THEN <<>> ELSE options[1]
        Keep(opt) == ~(given # <<>> /\ TypeInOptions(opt, given))
    IN SelectSeq(default_options, Keep) \o given

\* core.py:83-119, up to the panel.
capture ==
    /\ pc = "capture"
    /\ LET cam == IF kwargs.camera = None THEN "persp" ELSE kwargs.camera[1]
       IN IF ~objExists(cam)
            THEN /\ pc' = "done"
                 /\ result' = Raised("RuntimeError")
                 /\ UNCHANGED <<camera, start_frame, end_frame,
                                playblast_kwargs, context_options>>
            ELSE /\ camera' = cam
                 /\ start_frame' = OrElse(kwargs.start_frame, Scalar(playback.min))
                 /\ end_frame' = OrElse(kwargs.end_frame, Scalar(playback.max))
                 /\ context_options' =
                        MergeOptions(kwargs.default_options, kwargs.options)
                 /\ playblast_kwargs' =
                        IF kwargs.frame # None /\ Truthy(kwargs.frame[1])
                          THEN kwargs.frame ELSE None
                 /\ pc' = "window"
                 /\ result' = result
    /\ UNCHANGED <<hostVars, callVars, stderr, kwargs, originals, idx, exc,
                   output, log>>

(* ------------------------- _independent_panel ------------------------- *)

Event(name, k) == <<name, k>>

\* core.py:224-232: the screen size and cmds.window.  A failure here leaves
\* nothing behind.
independent_panel_window ==
    /\ pc = "window"
    /\ \/ /\ window' = TRUE
          /\ log' = Append(log, Event("window", 0))
          /\ pc' = "modelPanel"
          /\ result' = result
       \/ /\ pc' = "done"
          /\ result' = Raised("RuntimeError")
          /\ UNCHANGED <<window, log>>
    /\ UNCHANGED <<camAttr, display, playback, currentTime, panel, editor,
                   lookThru, isolateSelect, playblast, clipboardImage, callVars,
                   captureVars, stderr, originals, idx, exc, output>>

\* core.py:233-235: cmds.paneLayout and cmds.modelPanel.  They run before the
\* try statement of line 252: an exception leaves the generator at once.
independent_panel_modelPanel ==
    /\ pc = "modelPanel"
    /\ \/ /\ panel' = TRUE
          /\ editor' = NewEditor
          /\ log' = Append(log, Event("panel", 0))
          /\ pc' = "showWindow"
          /\ result' = result
       \/ /\ pc' = "done"
          /\ result' = Raised("RuntimeError")
          /\ UNCHANGED <<panel, editor, log>>
    /\ UNCHANGED <<camAttr, display, playback, currentTime, window, lookThru,
                   isolateSelect, playblast, clipboardImage, callVars,
                   captureVars, stderr, originals, idx, exc, output>>

\* core.py:238-250: frameLayout, showWindow, modelEditor(activeView) and
\* refresh, still before the try statement.
independent_panel_refresh ==
    /\ pc = "showWindow"
    /\ \/ /\ pc' = "lookThru"
          /\ result' = result
       \/ /\ pc' = "done"
          /\ result' = Raised("RuntimeError")
    /\ UNCHANGED <<hostVars, callVars, captureVars, stderr, originals, idx,
                   exc, output, log>>

\* core.py:125-126, inside `with _independent_panel`: an exception goes to
\* the finally of line 254.
capture_lookThru ==
    /\ pc = "lookThru"
    /\ \/ /\ lookThru' = camera
          /\ pc' = "assert"
          /\ exc' = exc
       \/ /\ pc' = "deleteUI_panel"
          /\ exc' = "RuntimeError"
          /\ UNCHANGED lookThru
    /\ UNCHANGED <<camAttr, display, playback, currentTime, window, panel,
                   editor, isolateSelect, playblast, clipboardImage, callVars,
                   captureVars, stderr, originals, idx, output, result, log>>

\* _isolated_nodes testing `if nodes:` where the code tests
\* `if nodes is not None:`
AfterOptions_truthy ==
    IF kwargs.isolate = None \/ kwargs.isolate[1] = <<>> THEN "playblast"
                                                         ELSE "isolateSelect"

\* where `with _options(...)` goes once every option set is applied
AfterOptions == IF kwargs.isolate = None THEN "playblast" ELSE "isolateSelect"

\* core.py:128: the host names the active editor; the assertion holds when
\* it is the panel.
capture_assert ==
    /\ pc = "assert"
    /\ \/ /\ pc' = IF context_options = <<>> THEN AfterOptions ELSE "current"
          /\ exc' = exc
       \/ /\ pc' = "deleteUI_panel"
          /\ exc' \in {"AssertionError", "RuntimeError"}
    /\ idx' = 1
    /\ UNCHANGED <<hostVars, callVars, captureVars, stderr, originals, output,
                   result, log>>

(* ----------------------- the option sets' methods --------------------- *)

\* What one call of an option set's current() or set() does: the exception
\* it raises ("None": it returns), the object it returns, the host state it
\* leaves, and what it wrote to sys.stderr.
Outcome(e, obj, ed, cam, disp, warnings) ==
    [exception |-> e, original |-> obj, editor |-> ed, cam |-> cam,
     display |-> disp, warnings |-> warnings]

Unchanged(e) == Outcome(e, NoneObject, editor, camAttr[camera], display, <<>>)

\* modelEditor(panel, edit=True, allObjects=False, grid=False,
\* manipulators=False)
ResetEditor(ed) == [ed EXCEPT !.polymeshes = FALSE, !.grid = FALSE]

\* current() ends with setattr(obj, key, value) done for every key of
\* _parse_options(obj): where "set" is one of the keys, the instance
\* attribute shadows the method and obj.set is no longer callable.
Snapshot(type, vals) ==
    [kind |-> "instance", type |-> type, vals |-> vals,
     callable |-> "set" \notin _parse_options(Instance(type, vals))]

\* The names the host knows: the flags of modelEditor and the attributes of
\* a camera.  A command given any other name raises (modelEditor: TypeError,
\* invalid flag; getAttr: ValueError, no object matches; setAttr:
\* RuntimeError).
EditorFlags == VpFields
CameraAttributes == CamFields

\* options.py:60-80: the reset, then one query per key of _parse_options.
ViewportOptions_current ==
    LET keys == _parse_options(Instance("ViewportOptions", ViewportDefaults))
        reset == ResetEditor(editor)
    IN {Unchanged("RuntimeError"),
        Outcome("RuntimeError", NoneObject, reset, camAttr[camera], display,
                <<>>)}
       \cup (IF keys \subseteq EditorFlags
               THEN {Outcome("None", Snapshot("ViewportOptions", reset), reset,
                             camAttr[camera], display, <<>>)}
               ELSE {Outcome("TypeError", NoneObject, reset, camAttr[camera],
                             display, <<>>)})

\* options.py:95-112: one getAttr per key of _parse_options.  A RuntimeError
\* of getAttr is caught, and the handler's delattr raises AttributeError: the
\* attribute is the class's, not the instance's.
CameraOptions_current ==
    LET keys == _parse_options(Instance("CameraOptions", CameraDefaults))
    IN {Outcome("AttributeError", NoneObject, editor, camAttr[camera], display,
                <<"Could not get camera attribute for capture">>)}
       \cup (IF keys \subseteq CameraAttributes
               THEN {Outcome("None", Snapshot("CameraOptions", camAttr[camera]),
                             editor, camAttr[camera], display, <<>>)}
               ELSE {Unchanged("ValueError")})

\* options.py:139-152: the options read are not returned.
DisplayOptions_current ==
    {Unchanged("RuntimeError"),
     Outcome("None", NoneObject, editor, camAttr[camera], display, <<>>)}

\* options.py:47-58: the reset, then every key of _parse_options as a flag
\* of one modelEditor command.
ViewportOptions_set(self) ==
    LET reset == ResetEditor(editor)
    IN {Unchanged("RuntimeError"),
        Outcome("RuntimeError", NoneObject, reset, camAttr[camera], display,
                <<>>)}
       \cup (IF _parse_options(self) \subseteq EditorFlags
               THEN {Outcome("None", NoneObject, self.vals, camAttr[camera],
                             display, <<>>)}
               ELSE {Outcome("TypeError", NoneObject, reset, camAttr[camera],
                             display, <<>>)})

\* options.py:114-121: setAttr key by key, in the dictionary's order; a
\* RuntimeError leaves the keys already set.
CameraOptions_set(self) ==
    LET Applied(done) ==
            [f \in CamFields |->
                IF f \in done THEN self.vals[f] ELSE camAttr[camera][f]]
    IN {Outcome("RuntimeError", NoneObject, editor, Applied(done), display,
                <<>>) : done \in SUBSET CamFields}
       \cup (IF _parse_options(self) \subseteq CameraAttributes
               THEN {Outcome("None", NoneObject, editor, Applied(CamFields),
                             display, <<>>)}
               ELSE {})

\* options.py:154-163: the colours in the order of _colors, then the
\* preferences.
DisplayOptions_set(self) ==
    LET order == _colors \o _prefs
        Applied(n) ==
            [f \in DOMAIN display |->
                IF \E k \in 1..n : order[k] = f THEN self.vals[f]
                                                ELSE display[f]]
    IN {Outcome("RuntimeError", NoneObject, editor, camAttr[camera],
                Applied(n), <<>>) : n \in 0..(Len(order) - 1)}
       \cup {Outcome("None", NoneObject, editor, camAttr[camera],
                     Applied(Len(order)), <<>>)}

\* option.current(...) / option.set(...) by the class of the object.  set is
\* a plain method: called on the class object it is unbound, and the call
\* raises TypeError.
Current(option) ==
    CASE option.type = "ViewportOptions" -> ViewportOptions_current
      [] option.type = "CameraOptions" -> CameraOptions_current
      [] option.type = "DisplayOptions" -> DisplayOptions_current

Set(option) ==
    IF option.kind = "class" THEN {Unchanged("TypeError")}
    ELSE CASE option.type = "ViewportOptions" -> ViewportOptions_set(option)
           [] option.type = "CameraOptions" -> CameraOptions_set(option)
           [] option.type = "DisplayOptions" -> DisplayOptions_set(option)

\* core.py:260-267: _inject reads argspec.kwargs before it calls fn.  The
\* ArgSpec of inspect.getargspec has the fields args, varargs, keywords and
\* defaults: on such an interpreter the read raises AttributeError and fn is
\* never called.
_inject(outcomes) ==
    IF argspecKwargs THEN outcomes ELSE {Unchanged("AttributeError")}

(* ------------------------------ _options ------------------------------ *)

\* an _options without its finally block
Finally_missing(snapshots) == "deleteUI_panel"

\* where an exception raised inside `with _options(...)` goes: the finally
\* of line 287, whose loop has nothing to do while originals is empty
Finally(snapshots) == IF snapshots = <<>> THEN "deleteUI_panel" ELSE "restore"

\* core.py:283-284: original = _inject(option.current, kwargs), appended.
options_current ==
    /\ pc = "current"
    /\ \E r \in _inject(Current(context_options[idx])) :
          /\ editor' = r.editor
          /\ stderr' = stderr \o r.warnings
          /\ IF r.exception = "None"
               THEN /\ originals' = Append(originals, r.original)
                    /\ pc' = "set"
                    /\ UNCHANGED <<idx, exc>>
               ELSE /\ exc' = r.exception
                    /\ pc' = Finally(originals)
                    /\ idx' = 1
                    /\ UNCHANGED originals
    /\ log' = Append(log, Event("current", idx))
    /\ UNCHANGED <<camAttr, display, playback, currentTime, window, panel,
                   lookThru, isolateSelect, playblast, clipboardImage, callVars,
                   captureVars, output, result>>

\* core.py:285: _inject(option.set, kwargs).
options_set ==
    /\ pc = "set"
    /\ \E r \in _inject(Set(context_options[idx])) :
          /\ editor' = r.editor
          /\ camAttr' = [camAttr EXCEPT ![camera] = r.cam]
          /\ display' = r.display
          /\ IF r.exception = "None"
               THEN /\ pc' = IF idx = Len(context_options) THEN AfterOptions
                                                           ELSE "current"
                    /\ idx' = IF idx = Len(context_options) THEN 1 ELSE idx + 1
                    /\ exc' = exc
               ELSE /\ exc' = r.exception
                    /\ pc' = Finally(originals)
                    /\ idx' = 1
    /\ log' = Append(log, Event("set", idx))
    /\ UNCHANGED <<playback, currentTime, window, panel, lookThru,
                   isolateSelect, playblast, clipboardImage, callVars,
                   captureVars, stderr, originals, output, result>>

\* core.py:287-294: one turn of the loop over originals.  `original.set` is
\* read first (None has no such attribute), then _inject inspects it (a
\* shadowed set is no function) and calls it; only RuntimeError is caught.
Restore(original) ==
    IF original.kind = "None" THEN {Unchanged("AttributeError")}
    ELSE IF ~original.callable THEN {Unchanged("TypeError")}
    ELSE _inject(Set(original))

options_restore ==
    /\ pc = "restore"
    /\ \E r \in Restore(originals[idx]) :
          /\ editor' = r.editor
          /\ camAttr' = [camAttr EXCEPT ![camera] = r.cam]
          /\ display' = r.display
          /\ IF r.exception \in {"None", "RuntimeError"}
               THEN /\ stderr' = IF r.exception = "None" THEN stderr
                                 ELSE Append(stderr, "Reverting to original failed")
                    /\ pc' = IF idx = Len(originals) THEN "deleteUI_panel"
                                                     ELSE "restore"
                    /\ idx' = idx + 1
                    /\ exc' = exc
               ELSE /\ exc' = r.exception
                    /\ pc' = "deleteUI_panel"
                    /\ UNCHANGED <<stderr, idx>>
    /\ log' = Append(log, Event("restore", idx))
    /\ UNCHANGED <<playback, currentTime, window, panel, lookThru,
                   isolateSelect, playblast, clipboardImage, callVars,
                   captureVars, originals, output, result>>

(* --------------------------- _isolated_nodes -------------------------- *)

\* core.py:302-303: cmds.isolateSelect(panel, state=True), reached only when
\* nodes is not None.
isolated_nodes_state ==
    /\ pc = "isolateSelect"
    /\ \/ /\ isolateSelect' = [isolateSelect EXCEPT !.state = TRUE,
                                                    !.calls = @ + 1]
          /\ pc' = IF kwargs.isolate[1] = <<>> THEN "playblast"
                                               ELSE "addDagObject"
          /\ exc' = exc
       \/ /\ isolateSelect' = [isolateSelect EXCEPT !.calls = @ + 1]
          /\ pc' = Finally(originals)
          /\ exc' = "RuntimeError"
    /\ idx' = 1
    /\ log' = Append(log, Event("isolateSelect", 0))
    /\ UNCHANGED <<camAttr, display, playback, currentTime, window, panel,
                   editor, lookThru, playblast, clipboardImage, callVars,
                   captureVars, stderr, originals, output, result>>

\* core.py:304-305: cmds.isolateSelect(panel, addDagObject=obj) for each node.
isolated_nodes_add ==
    /\ pc = "addDagObject"
    /\ LET nodes == kwargs.isolate[1]
       IN \/ /\ isolateSelect' =
                    [isolateSelect EXCEPT !.objects = @ \cup {nodes[idx]},
                                          !.calls = @ + 1]
             /\ pc' = IF idx = Len(nodes) THEN "playblast" ELSE "addDagObject"
             /\ idx' = IF idx = Len(nodes) THEN 1 ELSE idx + 1
             /\ exc' = exc
          \/ /\ isolateSelect' = [isolateSelect EXCEPT !.calls = @ + 1]
             /\ pc' = Finally(originals)
             /\ idx' = 1
             /\ exc' = "RuntimeError"
    /\ log' = Append(log, Event("addDagObject", idx))
    /\ UNCHANGED <<camAttr, display, playback, currentTime, window, panel,
                   editor, lookThru, playblast, clipboardImage, callVars,
                   captureVars, stderr, originals, output, result>>

(* ------------------------------ playblast ----------------------------- *)

\* the capture defaults of viewer and raw_frame_numbers (core.py:19, 23)
Default(x, d) == IF x = None THEN d ELSE x[1]

\* core.py:133-146: the host's capture primitive, with the arguments it is
\* given; it returns a path or raises.
capture_playblast ==
    /\ pc = "playblast"
    /\ playblast' = Some([viewer |-> Default(kwargs.viewer, TRUE),
                          startTime |-> start_frame,
                          endTime |-> end_frame,
                          rawFrameNumbers |->
                              Default(kwargs.raw_frame_numbers, FALSE),
                          frame |-> playblast_kwargs])
    /\ \/ /\ output' \in {Some(path) : path \in Paths}
          /\ exc' = exc
       \/ /\ exc' = "RuntimeError"
          /\ UNCHANGED output
    /\ pc' = Finally(originals)
    /\ idx' = 1
    /\ log' = Append(log, Event("playblast", 0))
    /\ UNCHANGED <<camAttr, display, playback, currentTime, window, panel,
                   editor, lookThru, isolateSelect, clipboardImage, callVars,
                   captureVars, stderr, originals, result>>

(* ------------------- the finally of _independent_panel ---------------- *)

\* core.py:256: cmds.deleteUI(panel, panel=True)
independent_panel_deleteUI_panel ==
    /\ pc = "deleteUI_panel"
    /\ panel' = FALSE
    /\ pc' = "deleteUI_window"
    /\ log' = Append(log, Event("deleteUI_panel", 0))
    /\ UNCHANGED <<camAttr, display, playback, currentTime, window, editor,
                   lookThru, isolateSelect, playblast, clipboardImage, callVars,
                   captureVars, stderr, originals, idx, exc, output, result>>

\* core.py:257: cmds.deleteUI(window); then capture returns output (line
\* 148) or the exception leaves capture, and snap with it.
independent_panel_deleteUI_window ==
    /\ pc = "deleteUI_window"
    /\ window' = FALSE
    /\ log' = Append(log, Event("deleteUI_window", 0))
    /\ IF exc # "None"
         THEN pc' = "done" /\ result' = Raised(exc)
         ELSE IF args.entry = "snap"
                THEN pc' = "sub" /\ result' = result
                ELSE pc' = "done" /\ result' = Returned(output)
    /\ UNCHANGED <<camAttr, display, playback, currentTime, panel, editor,
                   lookThru, isolateSelect, playblast, clipboardImage, callVars,
                   captureVars, stderr, originals, idx, exc, output>>

(* ---------------------- snap: the returned path ----------------------- *)

DigitChars == <<"0", "1", "2", "3", "4", "5", "6", "7", "8", "9">>

RECURSIVE Digits(_)
Digits(n) ==
    IF n < 10 THEN <<DigitChars[n + 1]>>
    ELSE Digits(n \div 10) \o <<DigitChars[(n % 10) + 1]>>

\* str(n) of an integer
str(n) == IF n < 0 THEN <<"-">> \o Digits(-n) ELSE Digits(n)

\* int(frame) of a frame in half frames: truncation towards zero
int(f) == IF f >= 0 THEN f \div 2 ELSE -((-f) \div 2)

\* s.zfill(width): zeros on the left up to width; after the sign if any
zfill(s, width) ==
    LET zeros == [k \in 1..(width - Len(s)) |-> "0"]
    IN IF Len(s) >= width THEN s
       ELSE IF s[1] \in {"+", "-"} THEN <<s[1]>> \o zeros \o Tail(s)
       ELSE zeros \o s

\* the pattern "#" where the code has "#+"
Match_single(s) == IF s # <<>> /\ s[1] = "#" THEN 1 ELSE 0

\* the length of the match of "#+" at the start of s (0: no match); + is
\* greedy
Match(s) ==
    CHOOSE n \in 0..Len(s) :
        /\ \A k \in 1..n : s[k] = "#"
        /\ n < Len(s) => s[n + 1] # "#"

\* core.py:197: replace = lambda m: str(int(frame)).zfill(len(m.group()))
replace(frame, n) == zfill(str(int(frame)), n)

\* core.py:198: re.sub("#+", replace, output)
RECURSIVE re_sub(_, _)
re_sub(frame, string) ==
    IF string = <<>> THEN <<>>
    ELSE LET n == Match(string)
         IN IF n > 0
              THEN replace(frame, n)
                   \o re_sub(frame, SubSeq(string, n + 1, Len(string)))
              ELSE <<Head(string)>> \o re_sub(frame, Tail(string))

\* core.py:194-204: after capture returned.
snap_return ==
    /\ pc = "sub"
    /\ LET frame == kwargs.frame[1].fs[1]
           path == re_sub(frame, output[1])
       IN /\ clipboardImage' = IF args.clipboard THEN Some(path)
                                                 ELSE clipboardImage
          /\ result' = Returned(Some(path))
    /\ pc' = "done"
    /\ UNCHANGED <<camAttr, display, playback, currentTime, window, panel,
                   editor, lookThru, isolateSelect, playblast, callVars,
                   captureVars, stderr, originals, idx, exc, output, log>>

(* ------------------------------- the call ----------------------------- *)

Next ==
    \/ snap
    \/ capture
    \/ independent_panel_window
    \/ independent_panel_modelPanel
    \/ independent_panel_refresh
    \/ capture_lookThru
    \/ capture_assert
    \/ options_current
    \/ options_set
    \/ isolated_nodes_state
    \/ isolated_nodes_add
    \/ capture_playblast
    \/ options_restore
    \/ independent_panel_deleteUI_panel
    \/ independent_panel_deleteUI_window
    \/ snap_return

Spec == Init /\ [][Next]_vars

(* ======================= the claims, one by one ======================= *)

HasEvent(name) == \E p \in DOMAIN log : log[p][1] = name

C3_PanelDestroyed ==
    pc = "done" => ~window /\ ~panel

\* C4: a call whose camera does not exist raises RuntimeError, and nothing
\* has happened before it does: no window, no panel, no snapshot, no option
\* set applied, no isolation, no playblast, the host state as it was.
\* (A snap call whose frame is not a number raises TypeError and never
\* calls capture.)
RequestedCamera == IF args.camera = None THEN "persp" ELSE args.camera[1]

ResolvedFrame ==
    IF args.frame = None THEN Scalar(currentTime) ELSE args.frame[1]

CaptureCalled == args.entry = "capture" \/ IsNumber(ResolvedFrame)

C4_UnknownCameraRaisesFirst ==
    ~(RequestedCamera \in SceneCameras) =>
        /\ pc \in {"snap", "capture", "done"}
        /\ pc = "done" =>
              result = IF CaptureCalled THEN Raised("RuntimeError")
                                        ELSE Raised("TypeError")
        /\ log = <<>> /\ ~window /\ ~panel
        /\ originals = <<>> /\ playblast = None
        /\ isolateSelect = NoIsolate /\ editor = NewEditor
        /\ camAttr = pre.camAttr /\ display = pre.display

C4_Witness ==
    /\ pc = "done" /\ args.camera = Some("ghost") /\ CaptureCalled
    /\ result = Raised("RuntimeError")

\* C5: a snap call with a scalar frame invokes playblast with startTime and
\* endTime both equal to the resolved frame (the frame given, or the host's
\* current frame).
C5_SingleFrame ==
    args.entry = "snap" /\ playblast # None =>
        /\ playblast[1].startTime = ResolvedFrame
        /\ playblast[1].endTime = ResolvedFrame

\* C6: with the declared defaults and option instances supplied by the
\* caller, the merged list holds exactly one option set of each type: the
\* caller's where the caller gave one of that type, the default otherwise.
OptionTypes == {"ViewportOptions", "DisplayOptions", "CameraOptions"}
OfType(options, type) == SelectSeq(options, LAMBDA o : o.type = type)

C6_OverrideWinsPerType ==
    LET given == IF kwargs.options = None THEN <<>> ELSE kwargs.options[1]
    IN (/\ pc = "window"
        /\ kwargs.default_options = DeclaredDefaults
        /\ (\A k \in DOMAIN given : given[k].kind = "instance"))
       => \A type \in OptionTypes :
             OfType(context_options, type) =
                 IF OfType(given, type) # <<>>
                   THEN OfType(given, type)
                   ELSE OfType(DeclaredDefaults, type)

\* C7 as stated: in the path snap returns, every maximal run of N '#' of the
\* path capture returned is replaced by the frame number zero-padded to N
\* digits, and every other character is kept.
Zeros(n) == [k \in 1..n |-> "0"]
Abs(n) == IF n < 0 THEN -n ELSE n
Sign(n) == IF n < 0 THEN <<"-">> ELSE <<>>
Max(a, b) == IF a > b THEN a ELSE b

\* the integer part of a frame given in half frames
IntegerPart(f) == IF f >= 0 THEN f \div 2 ELSE -(Abs(f) \div 2)

\* n written with at least N digits
PaddedToDigits(n, N) ==
    Sign(n) \o Zeros(Max(0, N - Len(Digits(Abs(n))))) \o Digits(Abs(n))

\* n written in at least N characters, the minus sign being one of them
PaddedToWidth(n, N) ==
    Sign(n) \o Zeros(Max(0, N - Len(Digits(Abs(n))) - Len(Sign(n))))
            \o Digits(Abs(n))

RECURSIVE Flatten(_)
Flatten(ss) == IF ss = <<>> THEN <<>> ELSE Head(ss) \o Flatten(Tail(ss))

\* the length of the maximal run of '#' that starts at position i of path
RunFrom(path, i) ==
    Cardinality({j \in i..Len(path) : \A k \in i..j : path[k] = "#"})

\* path with each maximal run of '#' replaced by Pad(length of the run)
Substituted(path, Pad(_)) ==
    Flatten([i \in 1..Len(path) |->
                IF path[i] # "#" THEN <<path[i]>>
                ELSE IF i > 1 /\ path[i - 1] = "#" THEN <<>>
                ELSE Pad(RunFrom(path, i))])

SnapReturned ==
    pc = "done" /\ args.entry = "snap" /\ result.kind = "return"

C7_PaddedToDigits ==
    SnapReturned =>
        result.value[1] =
            Substituted(output[1],
                LAMBDA N : PaddedToDigits(IntegerPart(ResolvedFrame.fs[1]), N))

\* C7 as amended: the run of N '#' is replaced by the integer part of the
\* frame written in at least N characters, zeros on the left after the sign,
\* the minus sign of a negative frame counting as one of the N.
C7_PaddedToWidth ==
    SnapReturned =>
        result.value[1] =
            Substituted(output[1],
                LAMBDA N : PaddedToWidth(IntegerPart(ResolvedFrame.fs[1]), N))

C7_Witness ==
    /\ SnapReturned
    /\ ResolvedFrame = Scalar(-14)
    /\ output[1] = <<"a", "#", "#">>
    /\ result.value[1] = <<"a", "-", "7">>

\* C8: whenever raw_frame_numbers is True, playblast is invoked with
\* viewer False.
C8_RawFrameNumbersForcesViewerOff ==
    playblast # None /\ playblast[1].rawFrameNumbers
        => playblast[1].viewer = FALSE

\* C9: when playblast is invoked with a node list given, isolation is on for
\* the panel and the isolated objects are exactly the given nodes, one
\* isolateSelect command each after the one that turns it on; with no list
\* given, no isolateSelect command is ever issued.
C9_Isolation ==
    /\ kwargs.isolate = None => isolateSelect = NoIsolate
    /\ playblast # None /\ kwargs.isolate # None =>
          /\ isolateSelect.state
          /\ isolateSelect.objects = Range(kwargs.isolate[1])
          /\ isolateSelect.calls = 1 + Len(kwargs.isolate[1])

C9_Witness ==
    /\ playblast # None
    /\ kwargs.isolate = Some(<<"n1", "n2">>)
    /\ isolateSelect.objects = {"n1", "n2"}

\* C10: the steps of a call come in this order: window, panel, then for each
\* option set its snapshot (current) and right after it its application
\* (set), then isolation, then playblast, then the restorations one
\* snapshot after the other, then the panel is deleted, then the window.
\* playblast runs only with every option set applied and the isolation
\* complete; the panel is deleted only after a restoration was attempted
\* when there is a snapshot to restore; set(k) finds snapshot k recorded.
Rank(e) ==
    CASE e[1] = "window" -> 1
      [] e[1] = "panel" -> 2
      [] e[1] \in {"current", "set"} -> 3
      [] e[1] = "isolateSelect" -> 4
      [] e[1] = "addDagObject" -> 5
      [] e[1] = "playblast" -> 6
      [] e[1] = "restore" -> 7
      [] e[1] = "deleteUI_panel" -> 8
      [] e[1] = "deleteUI_window" -> 9

\* b may directly follow a
Follows(a, b) ==
    CASE b[1] = "set" -> a = Event("current", b[2])
      [] b[1] = "current" ->
            IF b[2] = 1 THEN a = Event("panel", 0) ELSE a = Event("set", b[2] - 1)
      [] b[1] = "addDagObject" ->
            IF b[2] = 1 THEN a = Event("isolateSelect", 0)
                        ELSE a = Event("addDagObject", b[2] - 1)
      [] b[1] = "restore" ->
            IF b[2] = 1 THEN Rank(a) \in 3..6 ELSE a = Event("restore", b[2] - 1)
      [] OTHER -> Rank(a) < Rank(b)

====
